---- MODULE Spec2Model ----
(***************************************************************************)
(* The two testimonial scrapers of the repository:                         *)
(*   webscrap1.py         the paginated extractor (direct HTTP client)     *)
(*   webscrap1_bypass.py  the proxy variant (one fetch through a scraping  *)
(*                        service)                                         *)
(* Both run against the same paginated source.  The source is revealed    *)
(* page by page: the first script to ask for a page fixes its response,    *)
(* and every later request for that page gets the same response.           *)
(***************************************************************************)
EXTENDS Integers, Sequences, FiniteSets, TLC

VARIABLES
    served,       \* the source's responses for pages 1..Len(served)
    pc,           \* webscrap1.py: position in the script
    page_number,  \* webscrap1.py: page_number
    response,     \* webscrap1.py: response
    pending,      \* webscrap1.py: testimonials the for loop has yet to visit
    stdout,       \* webscrap1.py: lines printed
    error,        \* webscrap1.py: the exception that ended the script, if any
    requests,     \* webscrap1.py: page parameter of every GET issued, in order
    inflight,     \* webscrap1.py: GETs issued and not yet answered
    bpc,          \* webscrap1_bypass.py: position in the script
    result,       \* webscrap1_bypass.py: result
    bpending,     \* webscrap1_bypass.py: testimonials its for loop has yet to visit
    bstdout,      \* webscrap1_bypass.py: lines printed
    berror,       \* webscrap1_bypass.py: the exception that ended the script, if any
    brequests     \* webscrap1_bypass.py: page of every scrape issued, in order

vars == <<served, pc, page_number, response, pending, stdout, error, requests,
          inflight, bpc, result, bpending, bstdout, berror, brequests>>

dvars == <<pc, page_number, response, pending, stdout, error, requests, inflight>>

bvars == <<bpc, result, bpending, bstdout, berror, brequests>>

(***************************************************************************)
(* Bounds and program constants                                            *)
(***************************************************************************)
\* pages the model lets webscrap1.py request (the script itself has no limit)
MaxPage == 3

\* the status the script takes for success
StatusOk == 200

\* the denominator printed in 'rating: N/5 stars'
StarsShown == 5

(***************************************************************************)
(* Python values: every value is a record [kind, val]                      *)
(***************************************************************************)
PyStr(s) == [kind |-> "str", val |-> s]

PyInt(n) == [kind |-> "int", val |-> n]

PyDict(f) == [kind |-> "dict", val |-> f]

PyList(s) == [kind |-> "list", val |-> s]

PyNone == [kind |-> "none", val |-> <<>>]

\* an exception: its class, its args, and (JSONDecodeError only) the document
\* it failed to parse
Exc(type, args, doc) == [type |-> type, args |-> args, doc |-> doc]

NoError == Exc("none", <<>>, PyNone)

\* the result of evaluating an expression: a value, or an exception raised
Ok(v) == [ok |-> TRUE, val |-> v, exc |-> NoError]

Raise(e) == [ok |-> FALSE, val |-> PyNone, exc |-> e]

\* v[key] for a string key
GetItem(v, key) ==
    CASE v.kind = "dict" ->
            IF key \in DOMAIN v.val
            THEN Ok(v.val[key])
            ELSE Raise(Exc("KeyError", <<PyStr(key)>>, PyNone))
      [] v.kind \in {"str", "list"} ->
            Raise(Exc("TypeError", <<PyStr("indices must be integers")>>, PyNone))
      [] OTHER ->
            Raise(Exc("TypeError", <<PyStr("object is not subscriptable")>>, PyNone))

(***************************************************************************)
(* HTML: an element is [tag, cls, text, kids]; cls is the set of its       *)
(* classes, text its own text nodes, kids its child elements.  An          *)
(* element's own text nodes come before its children in document order.    *)
(***************************************************************************)
El(tag, cls, text, kids) == [tag |-> tag, cls |-> cls, text |-> text, kids |-> kids]

Svg == El("svg", {}, <<>>, <<>>)

RatingEl(n) == El("span", {"rating"}, <<>>, [i \in 1..n |-> Svg])

TextEl(s) == El("p", {"text"}, <<s>>, <<>>)

TestimonialEl(kids) == El("div", {"testimonial"}, <<>>, kids)

RECURSIVE Flatten(_)
Flatten(ss) == IF ss = <<>> THEN <<>> ELSE Head(ss) \o Flatten(Tail(ss))

\* descendant-or-self::*, in document order
RECURSIVE DescendantOrSelf(_)
DescendantOrSelf(e) ==
    <<e>> \o Flatten([i \in 1..Len(e.kids) |-> DescendantOrSelf(e.kids[i])])

HasClassTestimonial(e) == "testimonial" \in e.cls

HasClassText(e) == "text" \in e.cls

HasClassRating(e) == "rating" \in e.cls

IsSvg(e) == e.tag = "svg"

\* CssTestimonial as css('html > .testimonial'): the top-level blocks only
CssTestimonialChildrenOnly(root) == SelectSeq(root.kids, HasClassTestimonial)

\* css('.testimonial')
CssTestimonial(root) == SelectSeq(DescendantOrSelf(root), HasClassTestimonial)

\* css('.text::text'): the text nodes of every element of class text
CssTextText(e) ==
    LET holders == SelectSeq(DescendantOrSelf(e), HasClassText)
    IN  Flatten([i \in 1..Len(holders) |-> holders[i].text])

\* css('.rating>svg'): the svg children of every element of class rating
CssRatingSvg(e) ==
    LET holders == SelectSeq(DescendantOrSelf(e), HasClassRating)
    IN  Flatten([i \in 1..Len(holders) |-> SelectSeq(holders[i].kids, IsSvg)])

\* SelectorList.get(): the first match, or None
Get(matches) == IF matches = <<>> THEN PyNone ELSE PyStr(Head(matches))

\* text = testimonial.css('.text::text').get()
TextOf(testimonial) == Get(CssTextText(testimonial))

\* RatingOf held to the five stars the output line shows
RatingOfClamped(testimonial) ==
    IF Len(CssRatingSvg(testimonial)) > StarsShown
    THEN StarsShown
    ELSE Len(CssRatingSvg(testimonial))

\* RatingOf counting from zero
RatingOfOffByOne(testimonial) == Len(CssRatingSvg(testimonial)) - 1

\* rating = len(testimonial.css('.rating>svg').getall())
RatingOf(testimonial) == Len(CssRatingSvg(testimonial))

(***************************************************************************)
(* Responses                                                               *)
(***************************************************************************)
HtmlBody(els) == [kind |-> "html", val |-> els]

JsonBody(v) == [kind |-> "json", val |-> v]

\* a body that is neither the HTML fragment nor JSON (a gateway's error page)
RawBody == [kind |-> "raw", val |-> <<>>]

Response(status, body) == [status_code |-> status, body |-> body]

NoResponse == Response(0, RawBody)

\* Selector(response.text): the parsed document
Selector(body) ==
    El("html", {}, <<>>, IF body.kind = "html" THEN body.val ELSE <<>>)

\* response.json()
Json(r) ==
    IF r.body.kind = "json"
    THEN Ok(r.body.val)
    ELSE Raise(Exc("JSONDecodeError", <<PyStr("Expecting value")>>, r.body))

(***************************************************************************)
(* The paginated source: what https://web-scraping.dev/api/testimonials    *)
(* may answer                                                              *)
(***************************************************************************)
\* two testimonials, 5 and 3 stars
PageA ==
    <<TestimonialEl(<<TextEl("t1"), RatingEl(5)>>),
      TestimonialEl(<<TextEl("t2"), RatingEl(3)>>)>>

\* one testimonial, 4 stars
PageB == <<TestimonialEl(<<TextEl("t3"), RatingEl(4)>>)>>

\* a block that is no testimonial, a testimonial with no text and no star, and
\* a testimonial with two text elements that holds another testimonial
PageC ==
    <<El("div", {"ad"}, <<>>, <<TextEl("buy"), RatingEl(2)>>),
      TestimonialEl(<<RatingEl(0)>>),
      TestimonialEl(<<TextEl("out"), RatingEl(1), TextEl("more"),
                      TestimonialEl(<<TextEl("in"), RatingEl(2)>>)>>)>>

\* six stars under .rating, and one svg elsewhere in the block
PageD == <<TestimonialEl(<<TextEl("t6"), RatingEl(6), Svg>>)>>

HtmlBodies == {HtmlBody(<<>>), HtmlBody(PageA), HtmlBody(PageB), HtmlBody(PageC),
               HtmlBody(PageD)}

ErrorPayload(reason) == PyDict([detail |-> PyDict([error |-> reason])])

\* {"detail": {"error": <reason>}}
WellFormedPayloads ==
    {ErrorPayload(PyStr("invalid page")), ErrorPayload(PyStr("Invalid page")),
     ErrorPayload(PyStr("missing secret token")), ErrorPayload(PyInt(7))}

\* payloads without the expected structure
MalformedPayloads ==
    {PyDict([message |-> PyStr("forbidden")]),
     PyDict([detail |-> PyDict([msg |-> PyStr("invalid page")])]),
     PyDict([detail |-> PyStr("Not Found")]),
     PyDict([detail |-> PyList(<<PyDict([msg |-> PyStr("field required")])>>)]),
     PyList(<<PyStr("invalid page")>>),
     PyStr("invalid page")}

ErrorBodies ==
    {JsonBody(v) : v \in WellFormedPayloads \cup MalformedPayloads} \cup {RawBody}

\* statuses the script takes for failure (it tests status_code != 200)
FailureStatuses == {404, 422}

Responses ==
    {Response(StatusOk, b) : b \in HtmlBodies}
        \cup {Response(s, b) : s \in FailureStatuses, b \in ErrorBodies}

\* what the source answers for page n
SourceAnswers(n) == IF n <= Len(served) THEN {served[n]} ELSE Responses

\* the source after it has answered r for page n
Reveal(n, r) == IF n <= Len(served) THEN served ELSE Append(served, r)

(***************************************************************************)
(* webscrap1.py                                                            *)
(***************************************************************************)
Line(kind, v) == [line |-> kind, val |-> v]

Terminated == {"done", "raised"}

\* FailureOutcome with the sentinel reported like any other error
FailureOutcomeNoSentinel(r) ==
    LET j == Json(r)
        d == GetItem(j.val, "detail")
        e == GetItem(d.val, "error")
    IN  IF ~j.ok THEN [pc |-> "raised", error |-> j.exc]
        ELSE IF ~d.ok THEN [pc |-> "raised", error |-> d.exc]
        ELSE IF ~e.ok THEN [pc |-> "raised", error |-> e.exc]
        ELSE [pc |-> "raised",
              error |-> Exc("ValueError",
                            <<PyStr("API returned an error - something is missing?"),
                              j.val>>,
                            PyNone)]

\* FailureOutcome with every well-formed error taken for the end of pagination
FailureOutcomeAnyReasonEnds(r) ==
    LET j == Json(r)
        d == GetItem(j.val, "detail")
        e == GetItem(d.val, "error")
    IN  IF ~j.ok THEN [pc |-> "raised", error |-> j.exc]
        ELSE IF ~d.ok THEN [pc |-> "raised", error |-> d.exc]
        ELSE IF ~e.ok THEN [pc |-> "raised", error |-> e.exc]
        ELSE [pc |-> "done", error |-> NoError]

\* lines 21-26: what a response whose status is not 200 leads to
FailureOutcome(r) ==
    LET j == Json(r)
        d == GetItem(j.val, "detail")
        e == GetItem(d.val, "error")
    IN  IF ~j.ok THEN [pc |-> "raised", error |-> j.exc]
        ELSE IF ~d.ok THEN [pc |-> "raised", error |-> d.exc]
        ELSE IF ~e.ok THEN [pc |-> "raised", error |-> e.exc]
        ELSE IF e.val = PyStr("invalid page") THEN [pc |-> "done", error |-> NoError]
        ELSE [pc |-> "raised",
              error |-> Exc("ValueError",
                            <<PyStr("API returned an error - something is missing?"),
                              j.val>>,
                            PyNone)]

\* lines 31-35: what the loop body prints for one testimonial
Printed(testimonial) ==
    <<Line("text", TextOf(testimonial)),
      Line("rating", PyInt(RatingOf(testimonial))),
      Line("sep", PyNone)>>

\* SendRequest fetching the page after this one along with it
SendRequestPrefetch ==
    /\ pc = "loop"
    /\ page_number <= MaxPage
    /\ stdout' = Append(stdout, Line("scraping", PyInt(page_number)))
    /\ requests' = requests \o <<page_number, page_number + 1>>
    /\ inflight' = inflight \cup {page_number, page_number + 1}
    /\ pc' = "await"
    /\ UNCHANGED <<served, page_number, response, pending, error, bvars>>

\* lines 8-18: print the page, issue the GET and block on it
SendRequest ==
    /\ pc = "loop"
    /\ page_number <= MaxPage
    /\ stdout' = Append(stdout, Line("scraping", PyInt(page_number)))
    /\ requests' = Append(requests, page_number)
    /\ inflight' = inflight \cup {page_number}
    /\ pc' = "await"
    /\ UNCHANGED <<served, page_number, response, pending, error, bvars>>

\* line 9: httpx.get returns the source's response
ReceiveResponse ==
    /\ pc = "await"
    /\ \E r \in SourceAnswers(page_number) :
          /\ response' = r
          /\ served' = Reveal(page_number, r)
    /\ inflight' = inflight \ {page_number}
    /\ pc' = "check"
    /\ UNCHANGED <<page_number, pending, stdout, error, requests, bvars>>

\* lines 21-30: the status check, then either the failure branch or the parse
CheckStatus ==
    /\ pc = "check"
    /\ IF response.status_code # StatusOk
       THEN /\ pc' = FailureOutcome(response).pc
            /\ error' = FailureOutcome(response).error
            /\ UNCHANGED pending
       ELSE /\ pending' = CssTestimonial(Selector(response.body))
            /\ pc' = "emit"
            /\ UNCHANGED error
    /\ UNCHANGED <<served, page_number, response, stdout, requests, inflight, bvars>>

\* lines 30-35: one iteration of the for loop
EmitTestimonial ==
    /\ pc = "emit"
    /\ pending # <<>>
    /\ stdout' = stdout \o Printed(Head(pending))
    /\ pending' = Tail(pending)
    /\ UNCHANGED <<served, pc, page_number, response, error, requests, inflight, bvars>>

\* NextPage stepping over a page
NextPageSkips ==
    /\ pc = "emit"
    /\ pending = <<>>
    /\ page_number' = page_number + 2
    /\ pc' = "loop"
    /\ UNCHANGED <<served, response, pending, stdout, error, requests, inflight, bvars>>

\* NextPage with a page-count limit: the script stops after its second page
NextPageLimited ==
    /\ pc = "emit"
    /\ pending = <<>>
    /\ IF page_number >= 2
       THEN pc' = "done" /\ UNCHANGED page_number
       ELSE pc' = "loop" /\ page_number' = page_number + 1
    /\ UNCHANGED <<served, response, pending, stdout, error, requests, inflight, bvars>>

\* lines 37-38: the for loop is over; next page
NextPage ==
    /\ pc = "emit"
    /\ pending = <<>>
    /\ page_number' = page_number + 1
    /\ pc' = "loop"
    /\ UNCHANGED <<served, response, pending, stdout, error, requests, inflight, bvars>>

(***************************************************************************)
(* webscrap1_bypass.py                                                     *)
(***************************************************************************)
\* BypassPrinted with the rating taken from css('svg'): every svg of the block
BypassPrintedAnySvg(testimonial) ==
    <<Line("text", TextOf(testimonial)),
      Line("rating", PyInt(Len(SelectSeq(DescendantOrSelf(testimonial), IsSvg))))>>

\* lines 17-20: what the loop body prints for one testimonial
BypassPrinted(testimonial) ==
    <<Line("text", TextOf(testimonial)),
      Line("rating", PyInt(RatingOf(testimonial)))>>

\* line 4: os.environ['SCRAPFLY_KEY'] is set, or raises KeyError
BypassClient ==
    /\ bpc = "start"
    /\ \/ /\ bpc' = "scrape"
          /\ UNCHANGED berror
       \/ /\ bpc' = "raised"
          /\ berror' = Exc("KeyError", <<PyStr("SCRAPFLY_KEY")>>, PyNone)
    /\ UNCHANGED <<served, result, bpending, bstdout, brequests, dvars>>

\* lines 8-16: the one scrape, of page 1.  What client.scrape does with an
\* upstream status other than 200 is the proxy client's choice: it raises or it
\* hands the response back.
BypassScrape ==
    /\ bpc = "scrape"
    /\ brequests' = Append(brequests, 1)
    /\ \E r \in SourceAnswers(1) :
          /\ served' = Reveal(1, r)
          /\ \/ /\ result' = r
                /\ bpending' = CssTestimonial(Selector(r.body))
                /\ bpc' = "emit"
                /\ UNCHANGED berror
             \/ /\ r.status_code # StatusOk
                /\ bpc' = "raised"
                /\ berror' = Exc("UpstreamHttpClientError", <<PyInt(r.status_code)>>, PyNone)
                /\ UNCHANGED <<result, bpending>>
    /\ UNCHANGED <<bstdout, dvars>>

\* lines 16-20: one iteration of the for loop
BypassEmit ==
    /\ bpc = "emit"
    /\ bpending # <<>>
    /\ bstdout' = bstdout \o BypassPrinted(Head(bpending))
    /\ bpending' = Tail(bpending)
    /\ UNCHANGED <<served, bpc, result, berror, brequests, dvars>>

\* line 20: the for loop is over, and so is the script
BypassFinish ==
    /\ bpc = "emit"
    /\ bpending = <<>>
    /\ bpc' = "done"
    /\ UNCHANGED <<served, result, bpending, bstdout, berror, brequests, dvars>>

(***************************************************************************)
(* The specification                                                       *)
(***************************************************************************)
Init ==
    /\ served = <<>>
    /\ pc = "loop"
    /\ page_number = 1
    /\ response = NoResponse
    /\ pending = <<>>
    /\ stdout = <<>>
    /\ error = NoError
    /\ requests = <<>>
    /\ inflight = {}
    /\ bpc = "start"
    /\ result = NoResponse
    /\ bpending = <<>>
    /\ bstdout = <<>>
    /\ berror = NoError
    /\ brequests = <<>>

Next ==
    \/ SendRequest
    \/ ReceiveResponse
    \/ CheckStatus
    \/ EmitTestimonial
    \/ NextPage
    \/ BypassClient
    \/ BypassScrape
    \/ BypassEmit
    \/ BypassFinish

Spec == Init /\ [][Next]_vars

(***************************************************************************)
(* What the properties speak of, stated on the document tree itself and    *)
(* not through the selectors above                                         *)
(***************************************************************************)
\* the positions of an element's descendants and of itself: child indices from e down
RECURSIVE PathsOf(_)
PathsOf(e) ==
    {<<>>} \cup UNION {{<<i>> \o p : p \in PathsOf(e.kids[i])} : i \in 1..Len(e.kids)}

RECURSIVE At(_, _)
At(e, p) == IF p = <<>> THEN e ELSE At(e.kids[Head(p)], Tail(p))

ParentPath(p) == SubSeq(p, 1, Len(p) - 1)

\* p comes before q in document order: p is an ancestor of q, or branches off to its left
DocBefore(p, q) ==
    \E i \in 1..Len(q) :
        /\ \A j \in 1..(i - 1) : j <= Len(p) /\ p[j] = q[j]
        /\ (i > Len(p) \/ p[i] < q[i])

RECURSIVE InDocOrder(_)
InDocOrder(S) ==
    IF S = {} THEN <<>>
    ELSE LET first == CHOOSE p \in S : \A q \in S \ {p} : DocBefore(p, q)
         IN  <<first>> \o InDocOrder(S \ {first})

\* the testimonial blocks of a page, in document order
BlocksOfPage(r) ==
    IF r.body.kind # "html" THEN <<>>
    ELSE LET root == El("html", {}, <<>>, r.body.val)
             at == InDocOrder({p \in PathsOf(root) : "testimonial" \in At(root, p).cls})
         IN  [i \in 1..Len(at) |-> At(root, at[i])]

\* the rating indicators of a block: the svg children of its elements of class rating
IndicatorCount(block) ==
    Cardinality({p \in PathsOf(block) \ {<<>>} :
                    /\ At(block, p).tag = "svg"
                    /\ "rating" \in At(block, ParentPath(p)).cls})

\* the text of a block: the first text node of an element of class text, or absent
FirstText(block) ==
    LET holders == {p \in PathsOf(block) :
                       "text" \in At(block, p).cls /\ At(block, p).text # <<>>}
    IN  IF holders = {} THEN PyNone
        ELSE PyStr(Head(At(block, InDocOrder(holders)[1]).text))

Record(text, rating) == [text |-> text, rating |-> rating]

RecordsOfPage(r) ==
    LET bs == BlocksOfPage(r)
    IN  [i \in 1..Len(bs) |-> Record(FirstText(bs[i]), IndicatorCount(bs[i]))]

\* the records and blocks of pages 1..n of the source
RecordsOfPages(n) == Flatten([k \in 1..n |-> RecordsOfPage(served[k])])

BlocksOfPages(n) == Flatten([k \in 1..n |-> BlocksOfPage(served[k])])

IsTextLine(l) == l.line = "text"

IsRatingLine(l) == l.line = "rating"

RatingLines(out) == SelectSeq(out, IsRatingLine)

\* the records a script has emitted: each text line with the rating line after it
Emitted(out) ==
    LET ts == SelectSeq(out, IsTextLine)
        rs == RatingLines(out)
    IN  [i \in 1..Len(rs) |-> Record(ts[i].val, rs[i].val.val)]

IsFailure(r) == r.status_code # StatusOk

\* the payload is {"detail": {"error": ...}}
HasReason(r) ==
    /\ r.body.kind = "json"
    /\ r.body.val.kind = "dict"
    /\ "detail" \in DOMAIN r.body.val.val
    /\ r.body.val.val.detail.kind = "dict"
    /\ "error" \in DOMAIN r.body.val.val.detail.val

Reason(r) == r.body.val.val.detail.val.error

IsSentinel(r) == IsFailure(r) /\ HasReason(r) /\ Reason(r) = PyStr("invalid page")

IsOtherReason(r) ==
    IsFailure(r) /\ HasReason(r) /\ Reason(r).kind = "str" /\ Reason(r) # PyStr("invalid page")

IsMalformed(r) == IsFailure(r) /\ ~HasReason(r)

\* webscrap1.py has the response to its request for page n
Received(n) == n < Len(requests) \/ (n = Len(requests) /\ pc # "await")

\* the exception carries the response's payload
CarriesPayload(e, r) ==
    \/ /\ e.type = "ValueError"
       /\ r.body.kind = "json"
       /\ \E i \in 1..Len(e.args) : e.args[i] = r.body.val
    \/ /\ e.type = "JSONDecodeError"
       /\ e.doc = r.body

(***************************************************************************)
(* Properties                                                              *)
(***************************************************************************)
\* C1: once webscrap1.py has the response for page n and it is a failure whose
\* detail.error is exactly 'invalid page', the script ends normally (no
\* exception) and page n stays the last page ever requested.
C1_SentinelEndsRun ==
    \A n \in 1..Len(requests) :
        (Received(n) /\ IsSentinel(served[n])) =>
            /\ Len(requests) = n
            /\ inflight = {}
            /\ error = NoError
            /\ pc \in {"check", "done"}
            /\ pc = "check" => page_number = n

C1_Witness ==
    /\ pc = "done"
    /\ Len(requests) = 2
    /\ IsSentinel(served[2])
    /\ response = served[2]

\* C2: once webscrap1.py has the response for page n and it is a failure whose
\* detail.error is a string other than 'invalid page', the script ends with an
\* exception carrying the response's payload, and page n stays the last page
\* ever requested.
C2_OtherReasonRaises ==
    \A n \in 1..Len(requests) :
        (Received(n) /\ IsOtherReason(served[n])) =>
            /\ Len(requests) = n
            /\ inflight = {}
            /\ pc \in {"check", "raised"}
            /\ pc = "check" => (page_number = n /\ error = NoError)
            /\ pc = "raised" => CarriesPayload(error, served[n])

C2_Witness ==
    /\ pc = "raised"
    /\ Len(requests) = 2
    /\ IsOtherReason(served[2])
    /\ error.type = "ValueError"
    /\ error.args[2] = ErrorPayload(PyStr("missing secret token"))

\* C3: once webscrap1.py has the response for page n and it is a failure whose
\* payload lacks the expected structure, the script ends with an exception
\* carrying the response's payload, as for any other failure that is not the
\* sentinel, and page n stays the last page ever requested.
C3_MalformedRaisesWithPayload ==
    \A n \in 1..Len(requests) :
        (Received(n) /\ IsMalformed(served[n])) =>
            /\ Len(requests) = n
            /\ inflight = {}
            /\ pc \in {"check", "raised"}
            /\ pc = "raised" => CarriesPayload(error, served[n])

\* C4: page_number starts at 1; the k-th request carries page=k; page_number
\* changes only by +1, only when the for loop over a successful page's
\* testimonials is over, and it does change then; a failure response leaves it
\* as it is.
C4_PageCounter ==
    /\ page_number = 1
    /\ [](requests = [k \in 1..Len(requests) |-> k])
    /\ [](pc \in Terminated => page_number = Len(requests))
    /\ [][/\ page_number' # page_number =>
                /\ page_number' = page_number + 1
                /\ pc = "emit"
                /\ pending = <<>>
                /\ ~IsFailure(response)
                /\ response = served[page_number]
          /\ (pc = "emit" /\ pc' # "emit") => page_number' = page_number + 1
          /\ IsFailure(response') => page_number' = page_number]_vars

C4_Witness ==
    /\ pc \in Terminated
    /\ page_number = 3
    /\ requests = <<1, 2, 3>>

\* C5: webscrap1.py ends only on a failure response: when it has ended, its
\* last response is the failure of the page N it last requested, pages 1..N-1
\* were successes and exactly N requests were issued; as long as every
\* response it has had is a success it has not ended; and once page N's
\* response is a failure no request follows.
C5_EndsOnlyOnFailure ==
    /\ pc \in Terminated =>
          /\ IsFailure(response)
          /\ response = served[page_number]
          /\ Len(requests) = page_number
          /\ \A n \in 1..(page_number - 1) : ~IsFailure(served[n])
    /\ (\A n \in 1..Len(requests) : Received(n) => ~IsFailure(served[n])) =>
          pc \notin Terminated
    /\ \A n \in 1..Len(requests) :
          (Received(n) /\ IsFailure(served[n])) =>
              (Len(requests) = n /\ pc \in {"check"} \cup Terminated)
    /\ (pc = "loop" /\ page_number <= MaxPage) => ENABLED SendRequest

C5_Witness ==
    /\ pc \in Terminated
    /\ page_number = MaxPage
    /\ Len(requests) = MaxPage
    /\ IsFailure(served[MaxPage])

\* C6: the records webscrap1.py has emitted, followed by those of the
\* testimonials its for loop has yet to visit, are the records of the
\* testimonial blocks of the successful pages so far, in page order and in
\* document order within a page; a failing page adds none.
C6_RecordsArePagesInOrder ==
    LET k == IF pc = "emit" THEN page_number ELSE page_number - 1
        rest == [i \in 1..Len(pending) |->
                    Record(FirstText(pending[i]), IndicatorCount(pending[i]))]
    IN  Emitted(stdout) \o (IF pc = "emit" THEN rest ELSE <<>>) = RecordsOfPages(k)

C6_Witness ==
    /\ pc = "done"
    /\ Len(served) = 3
    /\ served[1].body = HtmlBody(PageA)
    /\ served[2].body = HtmlBody(PageB)
    /\ IsSentinel(served[3])
    /\ Emitted(stdout) =
          <<Record(PyStr("t1"), 5), Record(PyStr("t2"), 3), Record(PyStr("t3"), 4)>>

\* C7: the i-th rating webscrap1.py prints is the number of rating indicators
\* of the i-th testimonial block of the source, whatever that number is.
C7_RatingIsIndicatorCount ==
    LET rs == RatingLines(stdout)
        bs == BlocksOfPages(Len(served))
    IN  \A i \in 1..Len(rs) :
            /\ i <= Len(bs)
            /\ rs[i].val = PyInt(IndicatorCount(bs[i]))

C7_Witness ==
    LET rs == RatingLines(stdout)
        bs == BlocksOfPages(Len(served))
    IN  \E i, j \in 1..Len(rs) :
            /\ IndicatorCount(bs[i]) = 6
            /\ rs[i].val = PyInt(6)
            /\ IndicatorCount(bs[j]) = 0
            /\ rs[j].val = PyInt(0)

\* C8 as claimed: every rating either script prints is within 0..5.
C8_RatingWithinFive ==
    \A out \in {stdout, bstdout} :
        \A i \in 1..Len(RatingLines(out)) :
            RatingLines(out)[i].val.val \in 0..StarsShown

\* C8 as amended: every rating either script prints is a natural number, and
\* it exceeds 5 exactly when the block has more than five rating indicators.
C8_RatingIsNatural ==
    LET rs == RatingLines(stdout)
        bs == BlocksOfPages(Len(served))
        brs == RatingLines(bstdout)
        bbs == BlocksOfPage(served[1])
    IN  /\ \A i \in 1..Len(rs) :
              /\ rs[i].val.kind = "int"
              /\ rs[i].val.val \in Nat
              /\ rs[i].val.val > StarsShown <=> IndicatorCount(bs[i]) > StarsShown
        /\ \A i \in 1..Len(brs) :
              /\ brs[i].val.kind = "int"
              /\ brs[i].val.val \in Nat
              /\ brs[i].val.val > StarsShown <=> IndicatorCount(bbs[i]) > StarsShown

C8_Witness ==
    LET rs == RatingLines(stdout)
        brs == RatingLines(bstdout)
    IN  /\ \E i \in 1..Len(rs) : rs[i].val.val = 6
        /\ \E i \in 1..Len(brs) : brs[i].val.val = 6
        /\ \E i \in 1..Len(rs) : rs[i].val.val = 0

\* what webscrap1.py printed before it announced page 2
FirstPageLines(out) ==
    LET at == {i \in 1..Len(out) : out[i] = Line("scraping", PyInt(2))}
    IN  IF at = {} THEN out ELSE SubSeq(out, 1, (CHOOSE i \in at : TRUE) - 1)

\* C9 as claimed, for the runs in which both variants ran to their end without
\* an exception: both issued the same page requests and emitted the same
\* records.
C9_SameRequestsAndRecords ==
    (pc = "done" /\ bpc = "done") =>
        /\ brequests = requests
        /\ Emitted(bstdout) = Emitted(stdout)

\* C9 as amended: the proxy variant issues at most one request, for page 1,
\* and once both variants are through a successful page 1 the proxy variant's
\* records are the records the direct variant emitted for page 1.
C9_SameParsingFirstPageOnly ==
    /\ brequests \in {<<>>, <<1>>}
    /\ (bpc = "done" /\ page_number > 1) =>
          Emitted(bstdout) = Emitted(FirstPageLines(stdout))

C9_Witness ==
    /\ bpc = "done"
    /\ pc \in Terminated
    /\ page_number = 3
    /\ brequests = <<1>>
    /\ Len(Emitted(bstdout)) = 2
    /\ Len(Emitted(stdout)) > 2

\* C10: at most one request is outstanding, and only while the script is
\* blocked on it; every page before the last one requested was a success; and
\* from the request for a page until its status has been checked, the records
\* emitted are exactly those of all the pages before it.
C10_NoOverlap ==
    /\ Cardinality(inflight) <= 1
    /\ inflight # {} <=> pc = "await"
    /\ inflight # {} => inflight = {requests[Len(requests)]}
    /\ \A n \in 1..(Len(requests) - 1) : ~IsFailure(served[n])
    /\ pc \in {"await", "check"} =>
          /\ Len(RatingLines(stdout)) = Len(BlocksOfPages(Len(requests) - 1))
          /\ stdout[Len(stdout)] = Line("scraping", PyInt(Len(requests)))

C10_Witness ==
    /\ pc = "await"
    /\ inflight = {2}
    /\ Len(RatingLines(stdout)) = 2

====
